---- MODULE Spec2Model ----
(***************************************************************************)
(* Pagination engine of the J-Quants client (src/client.go):               *)
(*   fetchAllPages            - bulk mode, collects every page in a slice  *)
(*   fetchAllPagesWithChannel - streaming mode, sends every item to a      *)
(*                              caller-supplied channel                    *)
(* together with the per-endpoint fetch callback (sendRequest, the status  *)
(* check, handleErrorResponse, decodeResponse), the run's context          *)
(* (context.WithTimeout over the caller's context) and, for streaming,     *)
(* the consumer that ranges over the channel.                              *)
(*                                                                         *)
(* Also modelled: the three constructors of the client (NewClient,         *)
(* NewClientWithRateLimit, NewClientWithConfig) and the query parameters   *)
(* of the code-or-date endpoints (stockPriceParameters.values), and the    *)
(* decoding of one index-option record (IndexOptionPrice.UnmarshalJSON in  *)
(* src/option.go).                                                         *)
(*                                                                         *)
(* Time is counted in seconds from the start of the pagination call.       *)
(***************************************************************************)
EXTENDS Integers, Sequences, FiniteSets, TLC

\* ------------------------------------------------------------------ bounds
MaxPages   == 2    \* pages the server holds for one query
MaxPageLen == 2    \* items in one page
MaxChanCap == 1    \* capacity of the caller's channel (0 = unbuffered)
MaxDelay   == 3    \* seconds a slow party (server, consumer) takes
MaxBad     == 2    \* fields of one record that are of a kind no handler knows

\* ------------------------------------------------------- program constants
DefaultRetryInterval == 5     \* 5 * time.Second
DefaultLoopTimeout   == 20    \* 20 * time.Second
DefaultTimeout       == 8     \* 8 * time.Second, the HTTP client's timeout
DefaultRateLimit     == 1     \* config.RateLimit = 1
DocumentedTimeout    == 10    \* ClientConfig.Timeout: "Defaults to 10 seconds"
rateLimitLight       == 1
rateLimitStandard    == 2
rateLimitPremium     == 8

\* --------------------------------------------------------------- the state
VARIABLES
  env,            \* J_QUANTS_API_KEY in the process environment (NoEnv = unset)
  config,         \* the ClientConfig handed to NewClientWithConfig
  plan,           \* the Plan handed to NewClientWithRateLimit
  ctor,           \* the constructor that was called ("none" before the call)
  newErr,         \* the error the constructor returned
  c,              \* *Client, as the constructor returned it
  mode,           \* "bulk" (fetchAllPages) | "stream" (...WithChannel)
  req,            \* the caller's request: [Code, Date, From, To]
  query,          \* url.Values of the last HTTP request sent
  sent,           \* number of HTTP requests sent
  status,         \* resp.StatusCode of the last call (0 = no response)
  openBodies,     \* responses obtained whose Body has not been closed
  server,         \* the pages the server holds: Seq of [items, next]
  chanCap,        \* cap(ch) of the channel the caller passed (streaming)
  pc,             \* position of the pagination call
  now,            \* seconds since the call started
  cancelled,      \* the caller cancelled the parent context
  paginationKey,  \* var paginationKey *string (NoKey = nil)
  data,           \* data []T, the bulk accumulator
  resp,           \* the page being sent item by item (streaming)
  err,            \* resp, err := fetchPage(...): the error of the last call
  retData,        \* the slice the bulk call returned
  retErr,         \* the error the call returned
  chBuf,          \* items buffered in ch
  chClosed,       \* ch has been closed
  closes,         \* number of close(ch) calls made
  received,       \* what the consumer's range loop has received
  consumer,       \* "ranging" | "stopped" | "done"
  fetchLog,       \* every fetchPage call made: [key, res]
  sleeps,         \* number of time.Sleep(c.RetryInterval) calls made
  dec             \* an UnmarshalJSON call: [raw, iop, u, converted, pc, ret]

vars == <<env, config, plan, ctor, newErr, c, mode, req, query, sent, status,
          openBodies, server, chanCap, pc, now, cancelled, paginationKey, data, resp,
          err, retData, retErr, chBuf, chClosed, closes, received, consumer,
          fetchLog, sleeps, dec>>

\* What a pagination call never writes: the constructor's inputs and
\* outcome, the kind of call, the caller's request, and the decoding of a
\* record.
callVars == <<env, config, plan, ctor, newErr, mode, req, dec>>

\* What only a fetchPage call writes.
wireVars == <<query, sent, status, openBodies>>

\* ----------------------------------------------------------------- values
NoKey == 0                  \* a nil *string pagination key

NoErr == [type |-> "nil", cause |-> "nil"]

NilSlice == [isNil |-> TRUE, items |-> <<>>]

Slice(s) == [isNil |-> FALSE, items |-> s]

NoResp == [items |-> <<>>, next |-> NoKey]

Min(a, b) == IF a < b THEN a ELSE b

\* The items of page i when it holds n of them: item <<i, j>> is the j-th
\* record of the i-th page, so that every record of a query is distinct.
PageItems(i, n) == [j \in 1..n |-> <<i, j>>]

\* A server holding Len(lens) pages; page i carries the key that asks for
\* page i+1, the last page carries none.
ServerOf(lens) ==
  [i \in 1..Len(lens) |->
     [items |-> PageItems(i, lens[i]),
      next  |-> IF i < Len(lens) THEN i ELSE NoKey]]

PageLens == UNION {[1..n -> 0..MaxPageLen] : n \in 1..MaxPages}

\* The page the server answers a request carrying `key` with.
PageFor(key) == server[key + 1]

RECURSIVE Concat(_)
Concat(ss) == IF ss = <<>> THEN <<>> ELSE Head(ss) \o Concat(Tail(ss))

\* ------------------------------------------------------------ constructors
\* Durations are in seconds. A *Client is the record of what the rest of the
\* package reads from it: BaseURL, APIKey, RetryInterval, LoopTimeout, and of
\* its HttpClient the Timeout and the rate of the limiter in its transport
\* (NoLimiter when the transport is the default one).
BaseURL == "https://api.jquants.com/v2"

NoEnv == "<unset>"          \* os.LookupEnv reports !ok

NoLimiter == -1

NilClient ==
  [BaseURL |-> "", APIKey |-> "", RateLimit |-> 0, Timeout |-> 0,
   RetryInterval |-> 0, LoopTimeout |-> 0]

ZeroConfig == NilClient     \* ClientConfig{}: the same six fields, all zero

Plans == {"Light", "Standard", "Premium", "Free"}

Configs ==
  [BaseURL : {"", "http://localhost:8080"}, APIKey : {"", "cfg-key"},
   RateLimit : {0, 4}, Timeout : {0, 3}, RetryInterval : {0, 2},
   LoopTimeout : {0, 7}]

getAPIKey ==
  IF env = NoEnv
  THEN [key |-> "", err |-> "J_QUANTS_API_KEY environment variable is not set"]
  ELSE [key |-> env, err |-> "nil"]

NewClient ==
  IF getAPIKey.err # "nil" THEN [client |-> NilClient, err |-> getAPIKey.err]
  ELSE [client |-> [BaseURL       |-> BaseURL,
                    APIKey        |-> getAPIKey.key,
                    RateLimit     |-> NoLimiter,
                    Timeout       |-> DefaultTimeout,
                    RetryInterval |-> DefaultRetryInterval,
                    LoopTimeout   |-> DefaultLoopTimeout],
        err |-> "nil"]

NewClientWithRateLimit(pl) ==
  LET limit == CASE pl = "Light"    -> rateLimitLight
                 [] pl = "Standard" -> rateLimitStandard
                 [] pl = "Premium"  -> rateLimitPremium
                 [] OTHER           -> 0
  IN
  IF getAPIKey.err # "nil" THEN [client |-> NilClient, err |-> getAPIKey.err]
  ELSE [client |-> [BaseURL       |-> BaseURL,
                    APIKey        |-> getAPIKey.key,
                    RateLimit     |-> limit,
                    Timeout       |-> DefaultTimeout,
                    RetryInterval |-> DefaultRetryInterval,
                    LoopTimeout   |-> DefaultLoopTimeout],
        err |-> "nil"]

\* Faulty variant: a zero RetryInterval or LoopTimeout is kept as it is.
NewClientWithConfigKeepsZero(cfg) ==
  LET url    == IF cfg.BaseURL = "" THEN BaseURL ELSE cfg.BaseURL
      limit  == IF cfg.RateLimit = 0 THEN DefaultRateLimit ELSE cfg.RateLimit
      tmo    == IF cfg.Timeout = 0 THEN DefaultTimeout ELSE cfg.Timeout
      apiKey == IF cfg.APIKey = "" THEN getAPIKey
                ELSE [key |-> cfg.APIKey, err |-> "nil"]
  IN
  IF apiKey.err # "nil" THEN [client |-> NilClient, err |-> apiKey.err]
  ELSE [client |-> [BaseURL       |-> url,
                    APIKey        |-> apiKey.key,
                    RateLimit     |-> limit,
                    Timeout       |-> tmo,
                    RetryInterval |-> cfg.RetryInterval,
                    LoopTimeout   |-> cfg.LoopTimeout],
        err |-> "nil"]

NewClientWithConfig(cfg) ==
  LET url    == IF cfg.BaseURL = "" THEN BaseURL ELSE cfg.BaseURL
      limit  == IF cfg.RateLimit = 0 THEN DefaultRateLimit ELSE cfg.RateLimit
      tmo    == IF cfg.Timeout = 0 THEN DefaultTimeout ELSE cfg.Timeout
      retry  == IF cfg.RetryInterval = 0 THEN DefaultRetryInterval
                ELSE cfg.RetryInterval
      loop   == IF cfg.LoopTimeout = 0 THEN DefaultLoopTimeout
                ELSE cfg.LoopTimeout
      apiKey == IF cfg.APIKey = "" THEN getAPIKey
                ELSE [key |-> cfg.APIKey, err |-> "nil"]
  IN
  IF apiKey.err # "nil" THEN [client |-> NilClient, err |-> apiKey.err]
  ELSE [client |-> [BaseURL       |-> url,
                    APIKey        |-> apiKey.key,
                    RateLimit     |-> limit,
                    Timeout       |-> tmo,
                    RetryInterval |-> retry,
                    LoopTimeout   |-> loop],
        err |-> "nil"]

\* ------------------------------------------------------------- the context
\* Faulty variant: the timeout is counted anew from every look at the context.
DeadlineReset == now + c.LoopTimeout

\* ctx, cancel := context.WithTimeout(ctx, c.LoopTimeout), made at second 0.
Deadline == c.LoopTimeout

\* ctx.Err() at second t: the caller's cancellation if it came before the
\* timer fired, the timer's error otherwise.
CtxErr(t) ==
  IF cancelled THEN "Canceled"
  ELSE IF t >= Deadline THEN "DeadlineExceeded"
  ELSE "nil"

\* -------------------------------------------------------- the fetch callback
StatusCodes == {200, 400, 401, 403, 413, 429, 500, 502}

\* What the network does with one request: no response at all, or a response
\* with a status and a body that does or does not decompress and decode.
Responses ==
  {[net |-> FALSE, status |-> 0, bodyOK |-> FALSE]} \cup
  [net : {TRUE}, status : StatusCodes, bodyOK : BOOLEAN]

Delays == {0, MaxDelay}

\* ---- the request of a code-or-date endpoint (StockPriceRequest,
\* IndexPriceRequest, MarginTradingOutstandingRequest): four *string fields.
NoStr == "<nil>"            \* a nil *string

Requests ==
  [Code : {NoStr, "86970"}, Date : {NoStr, "2024-01-04"},
   From : {NoStr, "2024-01-01"}, To : {NoStr, "2024-01-31"}]

\* The request of the pagination runs that are not about validation.
DateRequest ==
  [Code |-> NoStr, Date |-> "2024-01-04", From |-> NoStr, To |-> NoStr]

\* url.Values of a code-or-date request: the value of each parameter, NoStr
\* (NoKey for the pagination key) when the parameter is absent.
NoQuery ==
  [date |-> NoStr, code |-> NoStr, from |-> NoStr, to |-> NoStr,
   pagination_key |-> NoKey]

\* Faulty variant: Code is not required when Date is missing.
valuesErrNever(p) == "nil"

\* stockPriceParameters.values(), the error it returns.
valuesErr(p) ==
  IF p.Date = NoStr /\ p.Code = NoStr THEN "code or date is required"
  ELSE "nil"

\* stockPriceParameters.values(), the url.Values it returns.
values(p, key) ==
  IF p.Date # NoStr THEN
    [NoQuery EXCEPT !.date = p.Date, !.pagination_key = key]
  ELSE IF p.Code = NoStr THEN
    NoQuery
  ELSE
    [date |-> NoStr, code |-> p.Code, from |-> p.From, to |-> p.To,
     pagination_key |-> key]

\* decodeErrorResponse: the server's message, or the decoding failure.
decodeErrorResponse(r) == IF r.bodyOK THEN "message" ELSE "decode"

\* Faulty variant: every 5xx status is taken for an InternalServerError.
handleErrorResponseAny5xx(r) ==
  LET decErr == decodeErrorResponse(r) IN
  CASE r.status = 400 -> [type |-> "BadRequest", cause |-> decErr]
    [] r.status = 401 -> [type |-> "Unauthorized", cause |-> decErr]
    [] r.status = 403 -> [type |-> "Forbidden", cause |-> decErr]
    [] r.status = 413 -> [type |-> "PayloadTooLarge", cause |-> decErr]
    [] r.status >= 500 -> [type |-> "InternalServerError", cause |-> decErr]
    [] OTHER          -> [type |-> "error", cause |-> decErr]

\* Faulty variant: a failure to decode the error body is returned as it is,
\* before the status is looked at.
handleErrorResponseDecodeFirst(r) ==
  LET decErr == decodeErrorResponse(r) IN
  CASE ~r.bodyOK     -> [type |-> "error", cause |-> decErr]
    [] r.status = 400 -> [type |-> "BadRequest", cause |-> decErr]
    [] r.status = 401 -> [type |-> "Unauthorized", cause |-> decErr]
    [] r.status = 403 -> [type |-> "Forbidden", cause |-> decErr]
    [] r.status = 413 -> [type |-> "PayloadTooLarge", cause |-> decErr]
    [] r.status = 500 -> [type |-> "InternalServerError", cause |-> decErr]
    [] OTHER          -> [type |-> "error", cause |-> decErr]

\* handleErrorResponse: the typed error of a non-200 response.
handleErrorResponse(r) ==
  LET decErr == decodeErrorResponse(r) IN
  CASE r.status = 400 -> [type |-> "BadRequest", cause |-> decErr]
    [] r.status = 401 -> [type |-> "Unauthorized", cause |-> decErr]
    [] r.status = 403 -> [type |-> "Forbidden", cause |-> decErr]
    [] r.status = 413 -> [type |-> "PayloadTooLarge", cause |-> decErr]
    [] r.status = 500 -> [type |-> "InternalServerError", cause |-> decErr]
    [] OTHER          -> [type |-> "error", cause |-> decErr]

\* Faulty variant: the request is built without the context (http.NewRequest).
fetchPageWithoutCtx(ctxErr, key, r) ==
  IF valuesErr(req) # "nil" THEN
    [err |-> [type |-> "error", cause |-> "parameters"], resp |-> NoResp]
  ELSE IF ~r.net THEN
    [err |-> [type |-> "error", cause |-> "network"], resp |-> NoResp]
  ELSE IF r.status # 200 THEN
    [err |-> handleErrorResponse(r), resp |-> NoResp]
  ELSE IF ~r.bodyOK THEN
    [err |-> [type |-> "error", cause |-> "decode"], resp |-> NoResp]
  ELSE
    [err |-> NoErr, resp |-> PageFor(key)]

\* Faulty variant: a page without items is reported as a failure.
fetchPageEmptyIsError(ctxErr, key, r) ==
  IF valuesErr(req) # "nil" THEN
    [err |-> [type |-> "error", cause |-> "parameters"], resp |-> NoResp]
  ELSE IF ctxErr # "nil" THEN
    [err |-> [type |-> "error", cause |-> ctxErr], resp |-> NoResp]
  ELSE IF ~r.net THEN
    [err |-> [type |-> "error", cause |-> "network"], resp |-> NoResp]
  ELSE IF r.status # 200 THEN
    [err |-> handleErrorResponse(r), resp |-> NoResp]
  ELSE IF ~r.bodyOK THEN
    [err |-> [type |-> "error", cause |-> "decode"], resp |-> NoResp]
  ELSE IF PageFor(key).items = <<>> THEN
    [err |-> [type |-> "error", cause |-> "empty"], resp |-> NoResp]
  ELSE
    [err |-> NoErr, resp |-> PageFor(key)]

\* fetchPage(ctx, paginationKey): one round trip of an endpoint's callback
\* (sendRequest with its parameter check, status check, decodeResponse).
\* ctxErr is ctx.Err() by the time the round trip would complete, r what the
\* network does with it.
fetchPage(ctxErr, key, r) ==
  IF valuesErr(req) # "nil" THEN
    [err |-> [type |-> "error", cause |-> "parameters"], resp |-> NoResp]
  ELSE IF ctxErr # "nil" THEN
    [err |-> [type |-> "error", cause |-> ctxErr], resp |-> NoResp]
  ELSE IF ~r.net THEN
    [err |-> [type |-> "error", cause |-> "network"], resp |-> NoResp]
  ELSE IF r.status # 200 THEN
    [err |-> handleErrorResponse(r), resp |-> NoResp]
  ELSE IF ~r.bodyOK THEN
    [err |-> [type |-> "error", cause |-> "decode"], resp |-> NoResp]
  ELSE
    [err |-> NoErr, resp |-> PageFor(key)]

\* Faulty variant: every error is retried.
IsInternalServerErrorAlways(e) == TRUE

\* Faulty variant: a failed round trip is retried like a 500.
IsInternalServerErrorOrNetwork(e) ==
  e.type = "InternalServerError" \/ e.cause = "network"

\* Faulty variant: no error is taken for an InternalServerError.
IsInternalServerErrorNever(e) == FALSE

\* errors.As(err, &InternalServerError{})
IsInternalServerError(e) == e.type = "InternalServerError"

\* errors.Is(err, context.DeadlineExceeded)
IsDeadlineExceeded(e) == e.cause = "DeadlineExceeded"

\* The second at which a round trip started at `now` returns: at once when
\* the context is already done, at the deadline when it fires on the way.
ReturnTime(d) ==
  IF valuesErr(req) # "nil" \/ CtxErr(now) # "nil" THEN now
  ELSE Min(now + d, Deadline)

\* How a fetchPage call ended, by the kind of error it returned (the errors
\* are told apart by their type alone, not by what the loop makes of them).
Outcome(e) ==
  IF e = NoErr THEN "ok"
  ELSE IF e.type = "InternalServerError" THEN "transient"
  ELSE "terminal"

\* Whether resp.Body of a response is closed by the time the callback
\* returns. handleErrorResponse and the callback hand the response to
\* decodeResponse, which closes the gzip.Reader it reads through, if
\* gzip.NewReader gave one; closing a gzip.Reader leaves the reader beneath
\* it open, and no resp.Body.Close() is called on any path.
BodyClosed(r) == FALSE

\* What a fetchPage call started now leaves on the wire: the request goes
\* out when its parameters are valid and the context is not done yet, and a
\* response comes back when the network gives one before the context is done.
roundTrip(r, d) ==
  LET reached  == valuesErr(req) = "nil" /\ CtxErr(now) = "nil"
      answered == reached /\ CtxErr(now + d) = "nil" /\ r.net
  IN
  /\ sent' = IF reached THEN sent + 1 ELSE sent
  /\ query' = IF reached THEN values(req, paginationKey) ELSE query
  /\ status' = IF answered THEN r.status ELSE 0
  /\ openBodies' = IF answered /\ ~BodyClosed(r) THEN openBodies + 1
                   ELSE openBodies

\* Faulty variant: the result of append is not kept.
appendDataDiscarded(dat, items) == dat

\* Faulty variant: the page is put in front of what was collected.
prependData(dat, items) == items \o dat

\* Faulty variant: an item that was collected already is not collected again.
appendDataDedup(dat, items) ==
  dat \o SelectSeq(items, LAMBDA x : \A j \in DOMAIN dat : dat[j] # x)

\* data = append(data, resp.Items()...)
appendData(dat, items) == dat \o items

\* Faulty variant: the key of the page is dropped.
NextPageKeyDropped(page) == NoKey

\* Faulty variant: a page without items is taken for the last page.
NextPageKeyEmptyEnds(page) == IF page.items = <<>> THEN NoKey ELSE page.next

\* paginationKey = resp.NextPageKey()
NextPageKey(page) == page.next

\* Faulty variant: return data, err: what was collected is returned.
errorResultPartial(dat) == Slice(dat)

\* return nil, err: the slice a failed bulk call returns.
errorResult(dat) == NilSlice

\* ------------------------------------ IndexOptionPrice.UnmarshalJSON
\* What json.Unmarshal leaves in an interface{} field: a float64, a string,
\* nil (null or missing), or a bool, []interface{} or map[string]interface{}.
\* A record is told by the kind of each field; the numbers themselves play
\* no part in what follows.
GoodKinds == {"float64", "string", "nil"}

BadKinds == {"bool", "map[string]interface {}"}

\* The u.price / u.volume / u.jsonNumber calls of UnmarshalJSON, in the
\* order it makes them, with the JSON key of the field each one reads.
Conversions ==
  <<[key |-> "O", conv |-> "price"], [key |-> "H", conv |-> "price"],
    [key |-> "L", conv |-> "price"], [key |-> "C", conv |-> "price"],
    [key |-> "EO", conv |-> "price"], [key |-> "EH", conv |-> "price"],
    [key |-> "EL", conv |-> "price"], [key |-> "EC", conv |-> "price"],
    [key |-> "AO", conv |-> "price"], [key |-> "AH", conv |-> "price"],
    [key |-> "AL", conv |-> "price"], [key |-> "AC", conv |-> "price"],
    [key |-> "VoOA", conv |-> "volume"], [key |-> "Settle", conv |-> "price"],
    [key |-> "Theo", conv |-> "jsonNumber"],
    [key |-> "BaseVol", conv |-> "jsonNumber"],
    [key |-> "UnderPx", conv |-> "jsonNumber"],
    [key |-> "IV", conv |-> "jsonNumber"], [key |-> "IR", conv |-> "jsonNumber"]>>

\* The sets of at most n fields.
RECURSIVE FieldsUpTo(_)
FieldsUpTo(n) ==
  IF n = 0 THEN {{}}
  ELSE LET S == FieldsUpTo(n - 1) IN
       S \cup {s \cup {i} : s \in S, i \in DOMAIN Conversions}

\* The kinds of the interface{} fields of a record: one kind the handlers
\* know for all fields but at most n of them, which are of a kind no
\* handler knows.
RawKinds(n) ==
  UNION {{[i \in DOMAIN Conversions |-> IF i \in P THEN f[i] ELSE g] :
             f \in [P -> BadKinds], g \in GoodKinds} :
         P \in FieldsUpTo(n)}

\* The records UnmarshalJSON may be called with: bytes that json.Unmarshal
\* does or does not accept for the raw struct, a Date and a PCDiv that are
\* there or missing (""), and the kinds of the interface{} fields.
RawRecords(n) ==
  [ok : BOOLEAN, Date : {"", "2024-01-04"}, PCDiv : {"", "1"},
   kinds : RawKinds(n)]

NoRaw == [ok |-> FALSE, Date |-> "", PCDiv |-> "", kinds |-> <<>>]

NoConvErr == [fn |-> "nil", type |-> "nil"]

NotReturned == [fn |-> "running", type |-> "nil"]

Panic == [fn |-> "panic", type |-> "nil pointer dereference"]

\* A nil pointer, and a pointer to the converted number.
NilPtr == "nil"

Ptr == "value"

NoIop == [Date |-> "unset", PutCallDivision |-> "unset", fields |-> <<>>]

\* strconv.ParseInt(s, 10, 8): the error it returns.
ParseIntErr(s) ==
  IF s = "1" THEN NoConvErr ELSE [fn |-> "strconv.ParseInt", type |-> s]

\* unmarshalTime(value): nil for the empty string.
unmarshalTime(value) == IF value = "" THEN NilPtr ELSE value

unmarshalPrice(v) ==
  CASE v = "float64"          -> [result |-> Ptr, err |-> NoConvErr]
    [] v \in {"string", "nil"} -> [result |-> NilPtr, err |-> NoConvErr]
    [] OTHER -> [result |-> NilPtr,
                 err |-> [fn |-> "unmarshalPrice", type |-> v]]

unmarshalVolume(v) ==
  CASE v = "float64"          -> [result |-> Ptr, err |-> NoConvErr]
    [] v \in {"string", "nil"} -> [result |-> NilPtr, err |-> NoConvErr]
    [] OTHER -> [result |-> NilPtr,
                 err |-> [fn |-> "unmarshalVolume", type |-> v]]

unmarshalJSONNumber(v) ==
  CASE v = "float64"          -> [result |-> Ptr, err |-> NoConvErr]
    [] v \in {"string", "nil"} -> [result |-> NilPtr, err |-> NoConvErr]
    [] OTHER -> [result |-> NilPtr,
                 err |-> [fn |-> "unmarshalJSONNumber", type |-> v]]

\* Faulty variant: the price is converted whatever u.err holds.
priceNotSticky(uu, v) ==
  [result |-> unmarshalPrice(v).result, err |-> unmarshalPrice(v).err,
   called |-> TRUE]

\* (u *unmarshaler).price(v): the pointer it returns, u.err after the call,
\* and whether unmarshalPrice was called.
price(uu, v) ==
  IF uu.err # NoConvErr THEN
    [result |-> NilPtr, err |-> uu.err, called |-> FALSE]
  ELSE
    [result |-> unmarshalPrice(v).result, err |-> unmarshalPrice(v).err,
     called |-> TRUE]

\* (u *unmarshaler).volume(v)
volume(uu, v) ==
  IF uu.err # NoConvErr THEN
    [result |-> NilPtr, err |-> uu.err, called |-> FALSE]
  ELSE
    [result |-> unmarshalVolume(v).result, err |-> unmarshalVolume(v).err,
     called |-> TRUE]

\* (u *unmarshaler).jsonNumber(v)
jsonNumber(uu, v) ==
  IF uu.err # NoConvErr THEN
    [result |-> NilPtr, err |-> uu.err, called |-> FALSE]
  ELSE
    [result |-> unmarshalJSONNumber(v).result,
     err |-> unmarshalJSONNumber(v).err, called |-> TRUE]

\* The state of an UnmarshalJSON call:
\*   raw        the record it is called with
\*   iop        *IndexOptionPrice: the fields assigned so far
\*   u          u := &unmarshaler{}: its err
\*   converted  number of unmarshalPrice/Volume/JSONNumber calls made
\*   pc         position of the call
\*   ret        what it returned, or the panic that ended it
DecodingOf(r) ==
  [raw |-> r, iop |-> NoIop, u |-> [err |-> NoConvErr], converted |-> 0,
   pc |-> "start", ret |-> NotReturned]

\* No record is being decoded.
NoDecoding == dec = [DecodingOf(NoRaw) EXCEPT !.pc = "idle"]

\* What UnmarshalJSON never writes: the client and the pagination call.
notDecodeVars ==
  <<env, config, plan, ctor, newErr, c, mode, req, query, sent, status,
    openBodies, server, chanCap, pc, now, cancelled, paginationKey, data,
    resp, err, retData, retErr, chBuf, chClosed, closes, received, consumer,
    fetchLog, sleeps>>

\* iop.UnmarshalJSON(b) entered with any record; no client, no pagination
\* call.
UnmarshalInit ==
  /\ env = NoEnv
  /\ config = ZeroConfig
  /\ plan = "Light"
  /\ ctor = "none"
  /\ newErr = "nil"
  /\ c = NilClient
  /\ pc = "none"
  /\ mode = "bulk"
  /\ req = DateRequest
  /\ query = NoQuery
  /\ sent = 0
  /\ status = 0
  /\ openBodies = 0
  /\ server = ServerOf(<<0>>)
  /\ chanCap = 0
  /\ now = 0
  /\ cancelled = FALSE
  /\ paginationKey = NoKey
  /\ data = <<>>
  /\ resp = NoResp
  /\ err = NoErr
  /\ retData = NilSlice
  /\ retErr = NoErr
  /\ chBuf = <<>>
  /\ chClosed = FALSE
  /\ closes = 0
  /\ received = <<>>
  /\ consumer = "done"
  /\ fetchLog = <<>>
  /\ sleeps = 0
  /\ \E r \in RawRecords(MaxBad) : dec = DecodingOf(r)

\* UnmarshalJSON up to the first conversion: json.Unmarshal(b, &raw), the
\* ParseInt of PCDiv, u := &unmarshaler{} and
\* iop.Date = *unmarshalTime(raw.Date), which panics on a nil pointer.
UnmarshalHead ==
  /\ dec.pc = "start"
  /\ dec' =
       IF ~dec.raw.ok THEN
         [dec EXCEPT !.pc = "done",
                     !.ret = [fn |-> "json.Unmarshal", type |-> "error"]]
       ELSE IF ParseIntErr(dec.raw.PCDiv) # NoConvErr THEN
         [dec EXCEPT !.pc = "done", !.ret = ParseIntErr(dec.raw.PCDiv)]
       ELSE IF unmarshalTime(dec.raw.Date) = NilPtr THEN
         [dec EXCEPT !.pc = "done", !.ret = Panic]
       ELSE
         [dec EXCEPT !.pc = "convert",
                     !.iop.Date = unmarshalTime(dec.raw.Date)]
  /\ UNCHANGED notDecodeVars

\* The next u.price / u.volume / u.jsonNumber call of UnmarshalJSON and the
\* assignment of its result; iop.PutCallDivision is assigned on the way, and
\* after the last call return u.err.
Convert ==
  /\ dec.pc = "convert"
  /\ LET i  == Len(dec.iop.fields) + 1
         cv == Conversions[i].conv
         r  == CASE cv = "price"  -> price(dec.u, dec.raw.kinds[i])
                 [] cv = "volume" -> volume(dec.u, dec.raw.kinds[i])
                 [] OTHER         -> jsonNumber(dec.u, dec.raw.kinds[i])
     IN
     dec' = [dec EXCEPT
               !.u = [err |-> r.err],
               !.converted = IF r.called THEN @ + 1 ELSE @,
               !.iop.fields = Append(@, r.result),
               !.iop.PutCallDivision =
                  IF cv = "volume" THEN dec.raw.PCDiv ELSE @,
               !.pc = IF i = Len(Conversions) THEN "done" ELSE @,
               !.ret = IF i = Len(Conversions) THEN r.err ELSE @]
  /\ UNCHANGED notDecodeVars

UnmarshalNext ==
  \/ UnmarshalHead
  \/ Convert

UnmarshalSpec == UnmarshalInit /\ [][UnmarshalNext]_vars

\* ------------------------------------------------- building the client
\* What a constructor never writes: the state of a pagination call and the
\* decoding of a record.
runVars == <<mode, req, query, sent, status, openBodies, server, chanCap, now, cancelled,
             paginationKey, data, resp, err, retData, retErr, chBuf,
             chClosed, closes, received, consumer, fetchLog, sleeps, dec>>

\* A program about to build its client: any environment, any ClientConfig
\* and any Plan it may pass; no pagination call is under way.
NewInit ==
  /\ env \in {NoEnv, "env-key"}
  /\ config \in Configs
  /\ plan \in Plans
  /\ ctor = "none"
  /\ newErr = "nil"
  /\ c = NilClient
  /\ pc = "new"
  /\ mode = "bulk"
  /\ req = DateRequest
  /\ query = NoQuery
  /\ sent = 0
  /\ status = 0
  /\ openBodies = 0
  /\ server = ServerOf(<<0>>)
  /\ chanCap = 0
  /\ now = 0
  /\ cancelled = FALSE
  /\ paginationKey = NoKey
  /\ data = <<>>
  /\ resp = NoResp
  /\ err = NoErr
  /\ retData = NilSlice
  /\ retErr = NoErr
  /\ chBuf = <<>>
  /\ chClosed = FALSE
  /\ closes = 0
  /\ received = <<>>
  /\ consumer = "done"
  /\ fetchLog = <<>>
  /\ sleeps = 0
  /\ NoDecoding

\* c, err := NewClient()
CallNewClient ==
  /\ pc = "new"
  /\ ctor' = "NewClient"
  /\ c' = NewClient.client
  /\ newErr' = NewClient.err
  /\ pc' = "built"
  /\ UNCHANGED <<env, config, plan>>
  /\ UNCHANGED runVars

\* c, err := NewClientWithRateLimit(plan)
CallNewClientWithRateLimit ==
  /\ pc = "new"
  /\ ctor' = "NewClientWithRateLimit"
  /\ c' = NewClientWithRateLimit(plan).client
  /\ newErr' = NewClientWithRateLimit(plan).err
  /\ pc' = "built"
  /\ UNCHANGED <<env, config, plan>>
  /\ UNCHANGED runVars

\* c, err := NewClientWithConfig(config)
CallNewClientWithConfig ==
  /\ pc = "new"
  /\ ctor' = "NewClientWithConfig"
  /\ c' = NewClientWithConfig(config).client
  /\ newErr' = NewClientWithConfig(config).err
  /\ pc' = "built"
  /\ UNCHANGED <<env, config, plan>>
  /\ UNCHANGED runVars

NewNext ==
  \/ CallNewClient
  \/ CallNewClientWithRateLimit
  \/ CallNewClientWithConfig

NewSpec == NewInit /\ [][NewNext]_vars

\* ------------------------------------------------------------------- Init
\* A pagination call is entered on a client built by NewClient, at second 0,
\* with nothing fetched yet.
InitRun ==
  /\ env = "env-key"
  /\ config = ZeroConfig
  /\ plan = "Light"
  /\ ctor = "NewClient"
  /\ newErr = NewClient.err
  /\ c = NewClient.client
  /\ query = NoQuery
  /\ sent = 0
  /\ status = 0
  /\ openBodies = 0
  /\ pc = "fetch"
  /\ now = 0
  /\ cancelled = FALSE
  /\ paginationKey = NoKey
  /\ resp = NoResp
  /\ err = NoErr
  /\ retData = NilSlice
  /\ retErr = NoErr
  /\ chBuf = <<>>
  /\ chClosed = FALSE
  /\ closes = 0
  /\ received = <<>>
  /\ fetchLog = <<>>
  /\ sleeps = 0
  /\ NoDecoding

\* The server holds any pages within the bounds.
InitCommon ==
  /\ InitRun
  /\ \E lens \in PageLens : server = ServerOf(lens)

\* fetchAllPages entered: data := make([]T, 0); no channel, no consumer.
Init ==
  /\ InitCommon
  /\ mode = "bulk"
  /\ req = DateRequest
  /\ data = <<>>
  /\ chanCap = 0
  /\ consumer = "done"

streamVars == <<chanCap, resp, chBuf, chClosed, closes, received, consumer>>

\* --------------------------------------------------------- the caller
\* The caller cancels the context it passed in. After the run's timer has
\* fired the cancellation changes nothing ctx.Err() reports.
Cancel ==
  /\ UNCHANGED callVars
  /\ UNCHANGED wireVars
  /\ pc # "done"
  /\ ~cancelled
  /\ now < Deadline
  /\ cancelled' = TRUE
  /\ UNCHANGED <<c, err, server, chanCap, pc, now, paginationKey, data, resp,
                 retData, retErr, chBuf, chClosed, closes, received, consumer,
                 fetchLog, sleeps>>

\* ------------------------------------------------------- fetchAllPages
\* One iteration of the loop of fetchAllPages up to its next blocking call:
\* fetchPage, then the error branch (sleep or return nil, err) or the append
\* and the check of the next key (loop or return data, nil).
fetchAllPagesStep(r, d) ==
  LET res == fetchPage(CtxErr(now + d), paginationKey, r) IN
  /\ now' = ReturnTime(d)
  /\ err' = res.err
  /\ fetchLog' = Append(fetchLog,
                   [key |-> paginationKey, res |-> Outcome(res.err)])
  /\ IF res.err # NoErr THEN
       IF IsInternalServerError(res.err) THEN
         /\ pc' = "sleep"
         /\ UNCHANGED <<data, paginationKey, retData, retErr>>
       ELSE
         /\ pc' = "done"
         /\ retData' = errorResult(data)
         /\ retErr' = res.err
         /\ UNCHANGED <<data, paginationKey>>
     ELSE
       /\ data' = appendData(data, res.resp.items)
       /\ paginationKey' = NextPageKey(res.resp)
       /\ IF NextPageKey(res.resp) = NoKey THEN
            /\ pc' = "done"
            /\ retData' = Slice(appendData(data, res.resp.items))
            /\ retErr' = NoErr
          ELSE
            /\ pc' = "fetch"
            /\ UNCHANGED <<retData, retErr>>

BulkFetch ==
  /\ mode = "bulk"
  /\ pc = "fetch"
  /\ \E r \in Responses, d \in Delays :
        fetchAllPagesStep(r, d) /\ roundTrip(r, d)
  /\ UNCHANGED <<c, server, cancelled, sleeps>>
  /\ UNCHANGED callVars
  /\ UNCHANGED streamVars

\* Faulty variant: the sleep lasts one second whatever the retry interval.
SleepOneSecond ==
  /\ UNCHANGED callVars
  /\ UNCHANGED wireVars
  /\ pc = "sleep"
  /\ now' = now + 1
  /\ sleeps' = sleeps + 1
  /\ pc' = "fetch"
  /\ UNCHANGED <<c, err, server, cancelled, paginationKey, data, retData, retErr,
                 fetchLog>>
  /\ UNCHANGED streamVars

\* Faulty variant: after the sleep the loop starts again from the first page.
SleepRestarts ==
  /\ UNCHANGED callVars
  /\ UNCHANGED wireVars
  /\ pc = "sleep"
  /\ now' = now + c.RetryInterval
  /\ sleeps' = sleeps + 1
  /\ pc' = "fetch"
  /\ paginationKey' = NoKey
  /\ UNCHANGED <<c, err, server, cancelled, data, retData, retErr, fetchLog>>
  /\ UNCHANGED streamVars

\* time.Sleep(c.RetryInterval); continue
Sleep ==
  /\ UNCHANGED callVars
  /\ UNCHANGED wireVars
  /\ pc = "sleep"
  /\ now' = now + c.RetryInterval
  /\ sleeps' = sleeps + 1
  /\ pc' = "fetch"
  /\ UNCHANGED <<c, err, server, cancelled, paginationKey, data, retData, retErr,
                 fetchLog>>
  /\ UNCHANGED streamVars

Next ==
  \/ BulkFetch
  \/ Sleep
  \/ Cancel

Spec == Init /\ [][Next]_vars

\* ------------------------------------------- fetchAllPagesWithChannel
\* fetchAllPagesWithChannel entered with the caller's channel, of any
\* capacity, and a consumer ranging over it.
StreamInit ==
  /\ InitCommon
  /\ mode = "stream"
  /\ req = DateRequest
  /\ data = <<>>
  /\ chanCap \in 0..MaxChanCap
  /\ consumer = "ranging"

\* Faulty variant: the items of a page are sent last to first.
rangeItemsBackwards(items) ==
  [j \in 1..Len(items) |-> items[Len(items) + 1 - j]]

\* for _, item := range resp.Items(): the order the items are sent in.
rangeItems(items) == items

\* Faulty variant: the streaming loop does not take the key of the page it
\* has sent; it ends after a page without key and asks again otherwise.
afterPageKeepsKey(page) ==
  /\ resp' = NoResp
  /\ UNCHANGED paginationKey
  /\ IF NextPageKey(page) = NoKey THEN
       /\ chClosed' = TRUE
       /\ closes' = closes + 1
       /\ pc' = "done"
       /\ retErr' = NoErr
     ELSE
       /\ pc' = "fetch"
       /\ UNCHANGED <<chClosed, closes, retErr>>

\* Faulty variant: the sink is closed at the end of every page.
afterPageClosesEachPage(page) ==
  /\ paginationKey' = NextPageKey(page)
  /\ resp' = NoResp
  /\ chClosed' = TRUE
  /\ closes' = closes + 1
  /\ IF NextPageKey(page) = NoKey THEN
       /\ pc' = "done"
       /\ retErr' = NoErr
     ELSE
       /\ pc' = "fetch"
       /\ UNCHANGED retErr

\* The end of one iteration once every item of the page has been sent:
\* paginationKey = resp.NextPageKey(); without a key break, close(ch) and
\* return nil, with one go round the loop.
afterPage(page) ==
  /\ paginationKey' = NextPageKey(page)
  /\ resp' = NoResp
  /\ IF NextPageKey(page) = NoKey THEN
       /\ chClosed' = TRUE
       /\ closes' = closes + 1
       /\ pc' = "done"
       /\ retErr' = NoErr
     ELSE
       /\ pc' = "fetch"
       /\ UNCHANGED <<chClosed, closes, retErr>>

\* Faulty variant: after a page with a key the loop goes on to the next fetch
\* before the items of the page are sent.
fetchAllPagesWithChannelStepAsync(r, d) ==
  LET res == fetchPage(CtxErr(now + d), paginationKey, r) IN
  /\ now' = ReturnTime(d)
  /\ err' = res.err
  /\ fetchLog' = Append(fetchLog,
                   [key |-> paginationKey, res |-> Outcome(res.err)])
  /\ IF res.err # NoErr THEN
       IF IsInternalServerError(res.err) THEN
         /\ pc' = "sleep"
         /\ UNCHANGED <<paginationKey, resp, retErr, chClosed, closes>>
       ELSE
         /\ pc' = "done"
         /\ retErr' = res.err
         /\ UNCHANGED <<paginationKey, resp, chClosed, closes>>
     ELSE IF res.resp.next = NoKey THEN
       /\ pc' = IF res.resp.items = <<>> THEN "done" ELSE "send"
       /\ resp' = IF res.resp.items = <<>> THEN NoResp ELSE res.resp
       /\ chClosed' = (res.resp.items = <<>>)
       /\ closes' = IF res.resp.items = <<>> THEN closes + 1 ELSE closes
       /\ paginationKey' = NoKey
       /\ UNCHANGED retErr
     ELSE
       /\ pc' = "fetch"
       /\ paginationKey' = res.resp.next
       /\ UNCHANGED <<resp, retErr, chClosed, closes>>

\* One iteration of the loop of fetchAllPagesWithChannel up to its next
\* blocking call: fetchPage, then the error branch (sleep, or return err) or
\* the first send of the page's items.
fetchAllPagesWithChannelStep(r, d) ==
  LET res == fetchPage(CtxErr(now + d), paginationKey, r) IN
  /\ now' = ReturnTime(d)
  /\ err' = res.err
  /\ fetchLog' = Append(fetchLog,
                   [key |-> paginationKey, res |-> Outcome(res.err)])
  /\ IF res.err # NoErr THEN
       IF IsInternalServerError(res.err) THEN
         /\ pc' = "sleep"
         /\ UNCHANGED <<paginationKey, resp, retErr, chClosed, closes>>
       ELSE
         /\ pc' = "done"
         /\ retErr' = res.err
         /\ UNCHANGED <<paginationKey, resp, chClosed, closes>>
     ELSE IF res.resp.items = <<>> THEN
       afterPage(res.resp)
     ELSE
       /\ pc' = "send"
       /\ resp' = [res.resp EXCEPT !.items = rangeItems(res.resp.items)]
       /\ UNCHANGED <<paginationKey, retErr, chClosed, closes>>

StreamFetch ==
  /\ mode = "stream"
  /\ pc = "fetch"
  /\ \E r \in Responses, d \in Delays :
        fetchAllPagesWithChannelStep(r, d) /\ roundTrip(r, d)
  /\ UNCHANGED callVars
  /\ UNCHANGED <<c, server, chanCap, cancelled, data, retData, chBuf,
                 received, consumer, sleeps>>

\* ch <- item: into the buffer when it has room, or handed to the consumer
\* waiting in its receive; the send blocks otherwise. After the last item of
\* the page the iteration ends.
Send ==
  /\ UNCHANGED callVars
  /\ UNCHANGED wireVars
  /\ pc = "send"
  /\ \/ /\ Len(chBuf) < chanCap
        /\ chBuf' = Append(chBuf, Head(resp.items))
        /\ UNCHANGED received
     \/ /\ chanCap = 0
        /\ consumer = "ranging"
        /\ received' = Append(received, Head(resp.items))
        /\ UNCHANGED chBuf
  /\ IF Tail(resp.items) = <<>> THEN
       afterPage(resp)
     ELSE
       /\ resp' = [resp EXCEPT !.items = Tail(resp.items)]
       /\ UNCHANGED <<pc, paginationKey, retErr, chClosed, closes>>
  /\ UNCHANGED <<c, err, server, chanCap, now, cancelled, data, retData, consumer,
                 fetchLog, sleeps>>

\* The producer stands in ch <- item until the run's deadline has passed.
SinkStall ==
  /\ UNCHANGED callVars
  /\ UNCHANGED wireVars
  /\ pc = "send"
  /\ now < Deadline
  /\ now' = Deadline
  /\ UNCHANGED <<c, err, server, chanCap, pc, cancelled, paginationKey, data, resp,
                 retData, retErr, chBuf, chClosed, closes, received, consumer,
                 fetchLog, sleeps>>

\* ------------------------------------------------------------ the consumer
\* for item := range ch: the next buffered item.
Recv ==
  /\ UNCHANGED callVars
  /\ UNCHANGED wireVars
  /\ consumer = "ranging"
  /\ chBuf # <<>>
  /\ received' = Append(received, Head(chBuf))
  /\ chBuf' = Tail(chBuf)
  /\ UNCHANGED <<c, err, server, chanCap, pc, now, cancelled, paginationKey, data,
                 resp, retData, retErr, chClosed, closes, consumer, fetchLog,
                 sleeps>>

\* for item := range ch: the channel is closed and drained, the loop ends.
RangeEnd ==
  /\ UNCHANGED callVars
  /\ UNCHANGED wireVars
  /\ consumer = "ranging"
  /\ chClosed
  /\ chBuf = <<>>
  /\ consumer' = "done"
  /\ UNCHANGED <<c, err, server, chanCap, pc, now, cancelled, paginationKey, data,
                 resp, retData, retErr, chBuf, chClosed, closes, received,
                 fetchLog, sleeps>>

\* The consumer leaves its receive loop before the channel is closed.
ConsumerStop ==
  /\ UNCHANGED callVars
  /\ UNCHANGED wireVars
  /\ consumer = "ranging"
  /\ ~chClosed
  /\ consumer' = "stopped"
  /\ UNCHANGED <<c, err, server, chanCap, pc, now, cancelled, paginationKey, data,
                 resp, retData, retErr, chBuf, chClosed, closes, received,
                 fetchLog, sleeps>>

Producer == StreamFetch \/ Sleep \/ Send

StreamNext ==
  \/ StreamFetch
  \/ Sleep
  \/ Send
  \/ SinkStall
  \/ Recv
  \/ RangeEnd
  \/ ConsumerStop
  \/ Cancel

StreamSpec == StreamInit /\ [][StreamNext]_vars

\* The producer's goroutine runs whenever it is not blocked; nothing makes
\* the consumer receive or the caller cancel.
StreamFairSpec == StreamSpec /\ WF_vars(Producer)

\* ------------------------------------------- a server that repeats itself
\* A server that serves the items of its first page again in every later
\* page, each page as long as lens tells (the upstream double-serves).
ServerReplaying(lens) ==
  [i \in 1..Len(lens) |->
     [items |-> PageItems(1, lens[i]),
      next  |-> IF i < Len(lens) THEN i ELSE NoKey]]

\* fetchAllPages entered against a server that may repeat itself.
ReplayInit ==
  /\ InitRun
  /\ \E lens \in PageLens :
        server \in {ServerOf(lens), ServerReplaying(lens)}
  /\ mode = "bulk"
  /\ req = DateRequest
  /\ data = <<>>
  /\ chanCap = 0
  /\ consumer = "done"

ReplaySpec == ReplayInit /\ [][Next]_vars

\* ------------------------------------------- a server that never ends
\* A server whose last page carries its own key again: every answer has a
\* continuation key.
ServerEndless(lens) ==
  [i \in 1..Len(lens) |->
     [items |-> PageItems(i, lens[i]),
      next  |-> IF i < Len(lens) THEN i ELSE Len(lens) - 1]]

\* fetchAllPages entered against a server that ends or never ends.
EndlessInit ==
  /\ InitRun
  /\ \E lens \in PageLens : server \in {ServerOf(lens), ServerEndless(lens)}
  /\ mode = "bulk"
  /\ req = DateRequest
  /\ data = <<>>
  /\ chanCap = 0
  /\ consumer = "done"

\* The clock is followed up to the end of a sleep begun just before the
\* deadline; no run is still fetching after that second.
Horizon == Deadline + c.RetryInterval

\* An iteration of fetchAllPages whose round trip takes time: the deadline
\* comes nearer with every fetch that reaches the network.
BulkFetchTimed ==
  /\ mode = "bulk"
  /\ pc = "fetch"
  /\ now <= Horizon
  /\ \E r \in Responses, d \in Delays \ {0} :
        fetchAllPagesStep(r, d) /\ roundTrip(r, d)
  /\ UNCHANGED <<c, server, cancelled, sleeps>>
  /\ UNCHANGED callVars
  /\ UNCHANGED streamVars

EndlessNext ==
  \/ BulkFetchTimed
  \/ Sleep
  \/ Cancel

EndlessSpec == EndlessInit /\ [][EndlessNext]_vars

\* The goroutine in fetchAllPages runs on: a round trip returns, the http
\* client's timeout at the latest, and a sleep ends. Nothing makes the
\* caller cancel.
EndlessFairSpec ==
  EndlessSpec /\ WF_vars(BulkFetchTimed) /\ WF_vars(Sleep)

\* ------------------------------------------------- either kind of call
\* A pagination call of either kind: IndexOptionPrice or
\* IndexOptionPriceWithChannel.
AnyInit == Init \/ StreamInit

AnyNext ==
  \/ BulkFetch
  \/ StreamFetch
  \/ Sleep
  \/ Send
  \/ SinkStall
  \/ Recv
  \/ RangeEnd
  \/ ConsumerStop
  \/ Cancel

AnySpec == AnyInit /\ [][AnyNext]_vars

\* ------------------------------------------ the code-or-date endpoints
\* StockPrice(ctx, req) or StockPriceWithChannel(ctx, req, ch): a pagination
\* call of either kind over a code-or-date endpoint, with any request the
\* caller may build. What the pages hold plays no part in building the
\* request: every page has one item.
StockPriceInit ==
  /\ InitRun
  /\ \E n \in 1..MaxPages : server = ServerOf([i \in 1..n |-> 1])
  /\ req \in Requests
  /\ data = <<>>
  /\ \/ mode = "bulk" /\ chanCap = 0 /\ consumer = "done"
     \/ mode = "stream" /\ chanCap \in 0..MaxChanCap /\ consumer = "ranging"

StockPriceSpec == StockPriceInit /\ [][AnyNext]_vars

\* ======================================================================
\* Properties of fetchAllPages (bulk mode), checked under Spec
\* ======================================================================

\* Every item the server holds for the query, page by page.
AllItems == Concat([i \in 1..Len(server) |-> server[i].items])

\* The logged fetchPage calls that ended `res`.
LogIdx(res) == {i \in DOMAIN fetchLog : fetchLog[i].res = res}

\* The fetchPage calls made with `key`, and those of them that ended `res`.
Calls(key) == {i \in DOMAIN fetchLog : fetchLog[i].key = key}

CallsEnding(key, res) == Calls(key) \cap LogIdx(res)

Returned == pc = "done"

\* C1 - bulk completeness: a run in which no fetch fails returns a nil error
\* and exactly the concatenation of the items of pages 1..n, in page order
\* and then in within-page order.
C1_BulkCompleteness ==
  (Returned /\ LogIdx("ok") = DOMAIN fetchLog) =>
     /\ retErr = NoErr
     /\ retData = Slice(AllItems)
     /\ Len(fetchLog) = Len(server)

C1_Witness ==
  /\ Returned
  /\ LogIdx("ok") = DOMAIN fetchLog
  /\ Len(server) = 2
  /\ retData.items = <<<<1, 1>>, <<1, 2>>, <<2, 1>>, <<2, 2>>>>

\* C4 - retry transparency: a run whose only failures are InternalServerError
\* returns what the run without failures returns, and for each key it made
\* one fetch call more than that key failed; in total pages + k calls.
C4_RetryTransparency ==
  (Returned /\ LogIdx("terminal") = {}) =>
     /\ retErr = NoErr
     /\ retData = Slice(AllItems)
     /\ \A key \in 0..(Len(server) - 1) :
          Cardinality(Calls(key)) =
            Cardinality(CallsEnding(key, "transient")) + 1
     /\ Len(fetchLog) = Len(server) + Cardinality(LogIdx("transient"))

C4_Witness ==
  /\ Returned
  /\ LogIdx("terminal") = {}
  /\ Len(server) = 2
  /\ Cardinality(CallsEnding(0, "transient")) = 1
  /\ Cardinality(CallsEnding(1, "transient")) = 2
  /\ retData = Slice(AllItems)
  /\ Len(AllItems) = 4

\* C5 - terminal abort: once a fetch has returned an error that is not an
\* InternalServerError, that call is the last one, no sleep follows it, and
\* the call has returned that error and a nil slice.
C5_TerminalAbort ==
  \A i \in LogIdx("terminal") :
     /\ i = Len(fetchLog)
     /\ Returned
     /\ retErr = err
     /\ retErr # NoErr
     /\ ~IsInternalServerError(retErr)
     /\ retData = NilSlice
     /\ sleeps = Cardinality(LogIdx("transient"))

C5_Witness ==
  /\ Returned
  /\ Len(fetchLog) = 3
  /\ fetchLog[1].res = "ok"
  /\ fetchLog[2].res = "transient"
  /\ fetchLog[3].res = "terminal"
  /\ retErr = [type |-> "Forbidden", cause |-> "message"]
  /\ Len(data) = 2

\* C6 - all or nothing: a returned bulk call has either a nil error and the
\* complete concatenation of the pages, or an error and a nil slice.
C6_AllOrNothing ==
  Returned =>
     \/ retErr = NoErr /\ retData = Slice(AllItems)
     \/ retErr # NoErr /\ retData = NilSlice

C6_Witness ==
  /\ Returned
  /\ retErr # NoErr
  /\ retData = NilSlice
  /\ data # <<>>
  /\ Len(data) < Len(AllItems)

C2_SinkClosedOnReturn ==
  Returned => (chClosed /\ closes = 1)

\* C3 - partial then error: page 1 fetched with a key, the fetch of page 2
\* fails terminally, the consumer has taken everything that was sent: it
\* holds exactly page 1's items, the sink is closed and the call returned
\* the error of the second fetch.
C3_PartialThenError ==
  ( /\ Returned
    /\ Len(fetchLog) = 2
    /\ fetchLog[1].res = "ok"
    /\ fetchLog[2].res = "terminal"
    /\ server[1].items # <<>>
    /\ consumer # "stopped"
    /\ chBuf = <<>> ) =>
     /\ received = server[1].items
     /\ retErr = err
     /\ retErr # NoErr
     /\ chClosed

C9_DeadlineClosesSink ==
  (Returned /\ IsDeadlineExceeded(retErr)) => chClosed

\* C10 - cancellation is honoured in the blocking send: when the consumer
\* has stopped receiving and the context is done (cancelled by the caller,
\* or past its deadline) while the producer stands in a send, the producing
\* call eventually returns.
C10_CancelReleasesSend ==
  (pc = "send" /\ consumer = "stopped" /\ CtxErr(now) # "nil") ~> Returned

\* ======================================================================
\* Further properties of fetchAllPages (bulk mode), checked under Spec
\* ======================================================================

\* C11 - the deadline covers every backoff sleep: a run that is still going
\* round its loop has not let the deadline pass, i.e. a sleep that the
\* deadline falls into is cut short there and no fetchPage call follows it.
C11_SleepEndsAtDeadline ==
  pc = "fetch" => now <= Deadline

\* The first fetchPage call succeeded and its page carries no key.
FirstPageIsLast ==
  /\ fetchLog # <<>>
  /\ fetchLog[1].res = "ok"
  /\ server[1].next = NoKey

\* C12 - single-page termination: when the first fetch succeeds and its page
\* has no continuation token, the bulk call has returned exactly that page's
\* items with a nil error after exactly one fetchPage call and no sleep.
C12_SinglePage ==
  FirstPageIsLast =>
     /\ Returned
     /\ retErr = NoErr
     /\ retData = Slice(server[1].items)
     /\ Len(fetchLog) = 1
     /\ sleeps = 0

C12_Witness ==
  /\ FirstPageIsLast
  /\ Returned
  /\ retData.items = <<<<1, 1>>, <<1, 2>>>>
  /\ fetchLog = <<[key |-> NoKey, res |-> "ok"]>>

\* The only fetchPage call so far got a 200 response whose body decoded,
\* from a server whose single page has no items and no key.
EmptyPageAnswered ==
  /\ server = ServerOf(<<0>>)
  /\ Len(fetchLog) = 1
  /\ status = 200
  /\ err.cause # "decode"

\* C13 - empty result: when the first page has no items and no continuation
\* token, the bulk call returns a nil error and a collection of length 0; the
\* empty page is not reported as a failure.
C13_EmptyResult ==
  EmptyPageAnswered =>
     /\ Returned
     /\ retErr = NoErr
     /\ Len(retData.items) = 0
     /\ fetchLog[1].res = "ok"

C13_Witness ==
  /\ EmptyPageAnswered
  /\ Returned
  /\ retErr = NoErr
  /\ retData = Slice(<<>>)

\* The last fetchPage call logged.
LastCall == fetchLog[Len(fetchLog)]

\* The error type handleErrorResponse is documented to give each status.
TypeOfStatus(st) ==
  CASE st = 400 -> "BadRequest"
    [] st = 401 -> "Unauthorized"
    [] st = 403 -> "Forbidden"
    [] st = 413 -> "PayloadTooLarge"
    [] st = 500 -> "InternalServerError"
    [] OTHER    -> "error"

\* C14 - error classification: a non-200 response is transient exactly when
\* its status is 500; 400, 401, 403 and 413 give BadRequest, Unauthorized,
\* Forbidden and PayloadTooLarge, every other status an untyped error; all
\* but the 500 are returned by the loop at once, without retry or sleep.
C14_ErrorClassification ==
  (fetchLog # <<>> /\ status \notin {0, 200}) =>
     /\ err.type = TypeOfStatus(status)
     /\ (LastCall.res = "transient") <=> (status = 500)
     /\ status = 500 => ~Returned
     /\ status # 500 =>
          /\ LastCall.res = "terminal"
          /\ Returned
          /\ retErr = err
          /\ retData = NilSlice
          /\ sleeps = Cardinality(LogIdx("transient"))

C14_Witness ==
  /\ status = 502
  /\ Returned
  /\ retErr.type = "error"
  /\ fetchLog = <<[key |-> NoKey, res |-> "transient"],
                  [key |-> NoKey, res |-> "terminal"]>>
  /\ sleeps = 1

\* The keys the fetchPage calls were made with, in call order.
TokenSequence == [i \in DOMAIN fetchLog |-> fetchLog[i].key]

\* C16 - continuation tokens are echoed verbatim and in sequence: the first
\* fetch is made without a token, each fetch after a successful page with
\* exactly the token that page returned, and the request carries it as
\* pagination_key. For the pages <<[A, B], "x">>, <<[C], none>> the tokens
\* are <<none, "x">>, two fetch calls.
C16_TokenEcho ==
  /\ fetchLog # <<>> => fetchLog[1].key = NoKey
  /\ \A i \in 2..Len(fetchLog) :
        fetchLog[i - 1].res = "ok" =>
          fetchLog[i].key = PageFor(fetchLog[i - 1].key).next
  /\ (fetchLog # <<>> /\ status # 0) =>
        query.pagination_key = LastCall.key
  /\ (Returned /\ LogIdx("ok") = DOMAIN fetchLog
         /\ server = ServerOf(<<2, 1>>)) =>
        TokenSequence = <<NoKey, 1>>

C16_Witness ==
  /\ Returned
  /\ LogIdx("ok") = DOMAIN fetchLog
  /\ server = ServerOf(<<2, 1>>)
  /\ TokenSequence = <<NoKey, 1>>
  /\ query.date = "2024-01-04"
  /\ query.pagination_key = 1
  /\ retData.items = <<<<1, 1>>, <<1, 2>>, <<2, 1>>>>

\* ======================================================================
\* A further property of fetchAllPagesWithChannel, checked under StreamSpec
\* ======================================================================

\* The items of the pages fetched successfully so far, in fetch order.
FetchedItems ==
  Concat([i \in DOMAIN fetchLog |->
            IF fetchLog[i].res = "ok" THEN PageFor(fetchLog[i].key).items
            ELSE <<>>])

IsPrefix(a, b) == Len(a) <= Len(b) /\ SubSeq(b, 1, Len(a)) = a

\* C17 - failures never travel through the sink: at every point of a
\* streaming run what the consumer has received, and what the sink holds
\* behind it, is a prefix of the items of the pages fetched successfully so
\* far; a terminal failure ends the run and is its return value only.
C17_SinkCarriesItemsOnly ==
  /\ IsPrefix(received, FetchedItems)
  /\ received \o chBuf \o resp.items = FetchedItems
  /\ LogIdx("terminal") # {} =>
        /\ LogIdx("terminal") = {Len(fetchLog)}
        /\ Returned
        /\ retErr = err
        /\ retErr # NoErr
        /\ resp.items = <<>>

C17_Witness ==
  /\ Returned
  /\ retErr.type = "BadRequest"
  /\ LogIdx("terminal") = {2}
  /\ received = <<<<1, 1>>>>
  /\ chBuf = <<<<1, 2>>>>

\* ======================================================================
\* Properties of both kinds of call, checked under AnySpec
\* ======================================================================

\* The last fetchPage call failed without a usable response: the round trip
\* gave none (network error, context done) or the 200 body did not decode.
TransportOrDecodeFailure ==
  /\ fetchLog # <<>>
  /\ err # NoErr
  /\ err.cause # "parameters"
  /\ status \in {0, 200}

\* C15 - transport and decoding failures are terminal: when the round trip
\* fails or a 200 body fails to decode, the loop, bulk or streaming, has
\* returned that error at once: the failing call is the last one, it was not
\* retried and no sleep followed it.
C15_TransportFailureTerminal ==
  TransportOrDecodeFailure =>
     /\ LastCall.res = "terminal"
     /\ Returned
     /\ retErr = err
     /\ sleeps = Cardinality(LogIdx("transient"))
     /\ mode = "bulk" => retData = NilSlice

C15_Witness ==
  /\ TransportOrDecodeFailure
  /\ mode = "stream"
  /\ status = 200
  /\ err.cause = "decode"
  /\ Returned
  /\ Len(fetchLog) = 2
  /\ received # <<>>
  /\ sleeps = 0

\* ======================================================================
\* Properties of the constructors, checked under NewSpec
\* ======================================================================

\* A constructor was called and returned a client.
Built == ctor # "none" /\ newErr = "nil"

\* C18 - NewClientWithConfig replaces every zero-valued option by its
\* documented default and keeps every non-zero one; a zero Timeout gives the
\* HTTP client the 10 seconds documented on ClientConfig.Timeout.
C18_ZeroOptionsGetDocumentedDefaults ==
  (Built /\ ctor = "NewClientWithConfig") =>
     /\ c.BaseURL = IF config.BaseURL = "" THEN BaseURL ELSE config.BaseURL
     /\ c.RateLimit = IF config.RateLimit = 0 THEN 1 ELSE config.RateLimit
     /\ c.Timeout =
          IF config.Timeout = 0 THEN DocumentedTimeout ELSE config.Timeout
     /\ c.RetryInterval =
          IF config.RetryInterval = 0 THEN 5 ELSE config.RetryInterval
     /\ c.LoopTimeout =
          IF config.LoopTimeout = 0 THEN 20 ELSE config.LoopTimeout
     /\ c.APIKey = IF config.APIKey = "" THEN env ELSE config.APIKey

\* C19 - pagination defaults: NewClient and NewClientWithRateLimit give a
\* retry interval of 5 seconds and a deadline of 20 seconds, and so does
\* NewClientWithConfig for a zero RetryInterval or LoopTimeout; non-zero
\* values in the config are used as they are.
C19_PaginationDefaults ==
  Built =>
     IF ctor = "NewClientWithConfig" THEN
       /\ c.RetryInterval =
            IF config.RetryInterval = 0 THEN 5 ELSE config.RetryInterval
       /\ c.LoopTimeout =
            IF config.LoopTimeout = 0 THEN 20 ELSE config.LoopTimeout
     ELSE
       /\ c.RetryInterval = 5
       /\ c.LoopTimeout = 20

C19_Witness ==
  /\ Built
  /\ ctor = "NewClientWithConfig"
  /\ config.RetryInterval = 0
  /\ config.LoopTimeout = 7
  /\ c.RetryInterval = 5
  /\ c.LoopTimeout = 7

\* ======================================================================
\* Properties of the code-or-date endpoints, checked under StockPriceSpec
\* ======================================================================

NeitherCodeNorDate == req.Code = NoStr /\ req.Date = NoStr

\* C20 - request validation: with neither Code nor Date the call returns an
\* error without sending any HTTP request, without retry or sleep; with Date
\* the query carries date and none of code, from, to; with Code only it
\* carries code, and from and to exactly when they are set.
C20_RequestValidation ==
  /\ NeitherCodeNorDate => sent = 0
  /\ (NeitherCodeNorDate /\ fetchLog # <<>>) =>
        /\ Returned
        /\ retErr.cause = "parameters"
        /\ retData = NilSlice
        /\ Len(fetchLog) = 1
        /\ sleeps = 0
  /\ (sent > 0 /\ req.Date # NoStr) =>
        /\ query.date = req.Date
        /\ query.code = NoStr /\ query.from = NoStr /\ query.to = NoStr
  /\ (sent > 0 /\ req.Date = NoStr) =>
        /\ req.Code # NoStr
        /\ query.code = req.Code
        /\ query.date = NoStr
        /\ query.from = req.From
        /\ query.to = req.To

C20_Witness ==
  /\ NeitherCodeNorDate
  /\ req.From # NoStr
  /\ Returned
  /\ retErr.cause = "parameters"
  /\ fetchLog = <<[key |-> NoKey, res |-> "terminal"]>>
  /\ sent = 0
  /\ sleeps = 0

\* ======================================================================
\* Properties of the retry loop in both kinds of call, checked under AnySpec
\* ======================================================================

\* What the call has made of the pages so far: the accumulated slice (bulk),
\* or the items sent and the unsent rest of the current page (streaming).
Delivered ==
  IF mode = "bulk" THEN data ELSE received \o chBuf \o resp.items

\* C21 - a transient failure changes no pagination state: the fetch after an
\* InternalServerError is made with the key of the failed fetch, and what was
\* accumulated (bulk) or sent (streaming) is what the successful fetches gave,
\* the failed attempt adding nothing to it.
C21_TransientChangesNothing ==
  /\ \A i \in 1..(Len(fetchLog) - 1) :
        fetchLog[i].res = "transient" => fetchLog[i + 1].key = fetchLog[i].key
  /\ pc = "sleep" =>
        /\ LastCall.res = "transient"
        /\ paginationKey = LastCall.key
        /\ resp = NoResp
        /\ Delivered = FetchedItems
        /\ retData = NilSlice /\ retErr = NoErr

C21_Witness ==
  /\ pc = "sleep"
  /\ mode = "stream"
  /\ fetchLog = <<[key |-> NoKey, res |-> "ok"], [key |-> 1, res |-> "transient"],
                  [key |-> 1, res |-> "transient"]>>
  /\ received \o chBuf = <<<<1, 1>>, <<1, 2>>>>
  /\ paginationKey = 1

\* ======================================================================
\* Further properties of fetchAllPages (bulk mode), checked under Spec
\* ======================================================================

\* The sleeps a run owes: one for each transient failure, the last of them
\* still to come while the loop stands before it.
SleepsDue ==
  Cardinality(LogIdx("transient")) - (IF pc = "sleep" THEN 1 ELSE 0)

\* C22 - backoff ordering: every transient failure is followed by exactly one
\* sleep of the retry interval before the next fetch, no sleep follows a
\* successful fetch or a terminal failure, so a run with k transient failures
\* makes k sleeps. One failure, then the page <<[A], none>>: the result is
\* [A] after 2 fetch calls and one sleep.
C22_BackoffOrdering ==
  /\ sleeps = SleepsDue
  /\ (pc = "sleep") <=> (fetchLog # <<>> /\ LastCall.res = "transient"
                           /\ sleeps < Cardinality(LogIdx("transient")))
  /\ now >= sleeps * c.RetryInterval
  /\ now <= sleeps * c.RetryInterval + Len(fetchLog) * MaxDelay
  /\ Returned => sleeps = Cardinality(LogIdx("transient"))
  /\ (Returned /\ server = ServerOf(<<1>>)
        /\ fetchLog = <<[key |-> NoKey, res |-> "transient"],
                        [key |-> NoKey, res |-> "ok"]>>) =>
        /\ retData = Slice(<<<<1, 1>>>>)
        /\ sleeps = 1
        /\ now >= c.RetryInterval

C22_Witness ==
  /\ Returned
  /\ server = ServerOf(<<1>>)
  /\ fetchLog = <<[key |-> NoKey, res |-> "transient"],
                  [key |-> NoKey, res |-> "ok"]>>
  /\ retData = Slice(<<<<1, 1>>>>)
  /\ sleeps = 1
  /\ now = c.RetryInterval + MaxDelay

\* ======================================================================
\* The retry state machine in both kinds of call, checked under AnySpec
\* ======================================================================

\* The last call fetched a page; HasToken: that page carries a key.
LastOk == fetchLog # <<>> /\ LastCall.res = "ok"

LastHasToken == PageFor(LastCall.key).next # NoKey

\* C23 - the run follows the retry state machine: a fetch ends in Success,
\* TransientFailure or TerminalFailure; Success leads to the next fetch
\* (token) or to Done (no token), TransientFailure to the sleep and the next
\* fetch, TerminalFailure to Aborted; Done and Aborted are final: the call
\* that led there is the last call, and no sleep, append or send follows.
C23_RetryStateMachine ==
  /\ pc \in {"fetch", "sleep", "send", "done"}
  /\ pc = "sleep" => LastCall.res = "transient"
  /\ pc = "send" => (mode = "stream" /\ LastOk /\ resp.items # <<>>)
  /\ (pc = "fetch" /\ fetchLog # <<>>) =>
        \/ LastCall.res = "transient" /\ sleeps = Cardinality(LogIdx("transient"))
        \/ LastOk /\ LastHasToken /\ paginationKey = PageFor(LastCall.key).next
  /\ Returned =>
        /\ \/ LastCall.res = "terminal" /\ retErr = err /\ retErr # NoErr
           \/ LastOk /\ ~LastHasToken /\ retErr = NoErr
        /\ sleeps = Cardinality(LogIdx("transient"))
        /\ resp = NoResp
        /\ Delivered = FetchedItems
  /\ \A i \in 1..(Len(fetchLog) - 1) :
        /\ fetchLog[i].res # "terminal"
        /\ fetchLog[i].res = "ok" => PageFor(fetchLog[i].key).next # NoKey

C23_Witness ==
  /\ Returned
  /\ mode = "stream"
  /\ fetchLog = <<[key |-> NoKey, res |-> "transient"],
                  [key |-> NoKey, res |-> "ok"],
                  [key |-> 1, res |-> "terminal"]>>
  /\ sleeps = 1
  /\ retErr.type = "Forbidden"

\* C24 - the absence of a key is the only signal of a successful end: a run
\* returns without error exactly when its last fetch succeeded with a page
\* that has no key; after a successful page with a key, even one with no
\* items, the run goes on and its next fetch carries that key.
C24_TokenAbsenceEndsRun ==
  /\ (Returned /\ retErr = NoErr) => (LastOk /\ ~LastHasToken)
  /\ (LastOk /\ ~LastHasToken) =>
        \/ Returned /\ retErr = NoErr
        \/ mode = "stream" /\ pc = "send"
  /\ (LastOk /\ LastHasToken) =>
        /\ ~Returned
        /\ pc = "fetch" => paginationKey = PageFor(LastCall.key).next
        /\ pc = "send" => mode = "stream"
  /\ \A i \in 1..(Len(fetchLog) - 1) :
        fetchLog[i].res = "ok" =>
           /\ PageFor(fetchLog[i].key).next # NoKey
           /\ fetchLog[i + 1].key = PageFor(fetchLog[i].key).next

C24_Witness ==
  /\ Returned
  /\ retErr = NoErr
  /\ server = ServerOf(<<0, 1>>)
  /\ fetchLog = <<[key |-> NoKey, res |-> "ok"], [key |-> 1, res |-> "ok"]>>
  /\ retData = Slice(<<<<2, 1>>>>)

\* C25 - the deadline is set once per run, LoopTimeout after its start, and
\* is the same for every fetch: however many pages were fetched or retries
\* made, no fetch gets a response after it, and a run that is past it stands
\* after a sleep or has returned the context's error.
C25_DeadlineSetOnce ==
  /\ c.LoopTimeout = DefaultLoopTimeout
  /\ LastOk => now <= c.LoopTimeout
  /\ (LastOk /\ mode = "bulk") => now < c.LoopTimeout
  /\ (status # 0 /\ pc \in {"sleep", "send", "done"}) => now <= c.LoopTimeout
  /\ now > c.LoopTimeout =>
        \/ pc = "fetch" /\ LastCall.res = "transient"
        \/ Returned /\ retErr.cause \in {"DeadlineExceeded", "Canceled"}

C25_Witness ==
  /\ Returned
  /\ IsDeadlineExceeded(retErr)
  /\ now = MaxDelay + 4 * c.RetryInterval
  /\ now > c.LoopTimeout
  /\ fetchLog[1].res = "ok"
  /\ LogIdx("transient") = 2..5
  /\ Len(fetchLog) = 6

\* ======================================================================
\* Further properties of fetchAllPagesWithChannel, checked under StreamSpec
\* ======================================================================

\* The items of the pages that come before the page asked for with `key`.
PagesBefore(key) == Concat([i \in 1..key |-> server[i].items])

\* C26 - pages are fetched strictly one after the other by the one producer:
\* every request on the wire belongs to one logged call of the loop, and by
\* the time the fetch of page i+1 was started every item of the pages up to
\* i had been accepted by the sink; with an unbuffered sink, received by the
\* consumer.
C26_SequentialPages ==
  /\ sent <= Len(fetchLog)
  /\ Len(chBuf) <= chanCap
  /\ fetchLog # <<>> =>
        /\ IsPrefix(PagesBefore(LastCall.key), received \o chBuf)
        /\ chanCap = 0 => IsPrefix(PagesBefore(LastCall.key), received)
  /\ pc \in {"fetch", "sleep"} =>
        /\ received \o chBuf = FetchedItems
        /\ chanCap = 0 => received = FetchedItems

C26_Witness ==
  /\ chanCap = 0
  /\ pc = "send"
  /\ fetchLog = <<[key |-> NoKey, res |-> "ok"], [key |-> 1, res |-> "ok"]>>
  /\ received = <<<<1, 1>>, <<1, 2>>>>
  /\ resp.items = <<<<2, 1>>, <<2, 2>>>>

\* ======================================================================
\* fetchAllPages against a server that repeats itself, checked under
\* ReplaySpec
\* ======================================================================

\* The sum of the lengths of the pages the logged calls fetched.
RECURSIVE FetchedLen(_)
FetchedLen(log) ==
  IF log = <<>> THEN 0
  ELSE (IF Head(log).res = "ok" THEN Len(PageFor(Head(log).key).items) ELSE 0)
       + FetchedLen(Tail(log))

\* The sum of the lengths of the server's first n pages.
RECURSIVE PagesLen(_)
PagesLen(n) == IF n = 0 THEN 0 ELSE Len(server[n].items) + PagesLen(n - 1)

\* C27 - length without deduplication: at every point of a bulk run the
\* accumulated slice is as long as the pages fetched so far taken together,
\* and holds their items copy by copy; the slice a successful run returns is
\* as long as all pages together, items served twice being in it twice.
C27_LengthNoDedup ==
  /\ Len(data) = FetchedLen(fetchLog)
  /\ data = FetchedItems
  /\ (Returned /\ retErr = NoErr) =>
        /\ Len(retData.items) = PagesLen(Len(server))
        /\ retData.items = AllItems

C27_Witness ==
  /\ Returned
  /\ retErr = NoErr
  /\ server = ServerReplaying(<<2, 2>>)
  /\ Len(fetchLog) = 2
  /\ retData = Slice(<<<<1, 1>>, <<1, 2>>, <<1, 1>>, <<1, 2>>>>)

\* ======================================================================
\* The two kinds of call side by side, checked under AnySpec
\* ======================================================================

\* The key the i-th call of a run carries when the loop is driven as
\* fetchAllPages drives it: the key of the last page fetched before it.
KeyDue(i) == Cardinality({j \in 1..(i - 1) : fetchLog[j].res = "ok"})

\* C28 - bulk and streaming are driven alike: in either kind of call the keys
\* of the calls, the number of sleeps and the error returned are the same
\* function of the outcomes of the fetches so far, the items handed on are
\* those of the pages fetched, none dropped and none twice, and on success
\* what a draining consumer received is what the bulk call returns: every
\* item of the server in page order.
C28_SameDrivingLogic ==
  /\ \A i \in DOMAIN fetchLog : fetchLog[i].key = KeyDue(i)
  /\ sleeps = SleepsDue
  /\ Delivered = FetchedItems
  /\ IsPrefix(FetchedItems, AllItems)
  /\ Returned => retErr = (IF LastCall.res = "ok" THEN NoErr ELSE err)
  /\ (Returned /\ retErr = NoErr) =>
        AllItems = (IF mode = "bulk" THEN retData.items ELSE received \o chBuf)
  /\ (mode = "stream" /\ consumer = "done") => received = AllItems

C28_Witness ==
  /\ mode = "stream"
  /\ consumer = "done"
  /\ Returned
  /\ fetchLog = <<[key |-> NoKey, res |-> "ok"], [key |-> 1, res |-> "transient"],
                  [key |-> 1, res |-> "ok"]>>
  /\ sleeps = 1
  /\ received = <<<<1, 1>>, <<1, 2>>, <<2, 1>>, <<2, 2>>>>

\* ======================================================================
\* The closing of the sink, checked under StreamSpec
\* ======================================================================

\* C29 - the producer never sends on a closed sink and never closes it
\* twice: the sink is closed at most once, by the call that has returned,
\* after the last item of the last page went into it, and the producer
\* stands in no send, and has no item left to send, once it is closed.
C29_CloseOnceAfterLastSend ==
  /\ closes <= 1
  /\ chClosed <=> closes = 1
  /\ pc = "send" => ~chClosed
  /\ chClosed =>
        /\ Returned
        /\ resp = NoResp
        /\ LastOk /\ ~LastHasToken
        /\ received \o chBuf = FetchedItems
        /\ FetchedItems = AllItems

C29_Witness ==
  /\ chClosed
  /\ closes = 1
  /\ Returned
  /\ consumer = "ranging"
  /\ Len(fetchLog) = 2
  /\ received = <<<<1, 1>>, <<1, 2>>, <<2, 1>>>>
  /\ chBuf = <<<<2, 2>>>>

\* ======================================================================
\* Termination of fetchAllPages, checked under EndlessFairSpec
\* ======================================================================

\* C30 - every bulk run ends, with its result or with an error: the deadline
\* of the run comes, a fetch made after it fails with the context's error,
\* which is not retried, so the loop ends even against a server that gives a
\* key with every page or answers 500 to every request.
C30_BulkRunEnds == <>Returned

C30_Witness ==
  /\ Returned
  /\ server = ServerEndless(<<1, 1>>)
  /\ IsDeadlineExceeded(retErr)
  /\ retData = NilSlice
  /\ Len(fetchLog) > 3
  /\ LogIdx("ok") = 1..(Len(fetchLog) - 1)
  /\ now = Deadline

\* ======================================================================
\* The body of an error response, checked under Spec
\* ======================================================================

\* C31 - a 500 is transient whatever its body: with a message that decodes
\* and with a body that fails to decompress or decode the callback returns
\* an InternalServerError and the loop sleeps and retries; a body that fails
\* to decode makes no other status transient: the run returns that error.
C31_BodyDoesNotDecide500 ==
  /\ (fetchLog # <<>> /\ status = 500) =>
        /\ err.type = "InternalServerError"
        /\ err.cause \in {"message", "decode"}
        /\ LastCall.res = "transient"
        /\ ~Returned
        /\ pc = "sleep" \/ (pc = "fetch" /\ sleeps = Cardinality(LogIdx("transient")))
  /\ (fetchLog # <<>> /\ status \notin {0, 500} /\ err.cause = "decode") =>
        /\ err.type = TypeOfStatus(status)
        /\ LastCall.res = "terminal"
        /\ Returned
        /\ retErr = err

C31_Witness ==
  /\ status = 500
  /\ err = [type |-> "InternalServerError", cause |-> "decode"]
  /\ pc = "fetch"
  /\ sleeps = 2
  /\ fetchLog = <<[key |-> NoKey, res |-> "transient"],
                  [key |-> NoKey, res |-> "transient"]>>

\* ======================================================================
\* The bodies of the responses of a run, checked under Spec
\* ======================================================================

\* C32 - every response obtained during a pagination run has its body
\* closed before the next fetch starts or the run returns, whether it was a
\* 200 that decoded, a 200 that did not, an error response or a retried
\* 500: between fetches no body is open, however many pages or retries.
C32_BodiesClosedPerFetch ==
  pc \in {"fetch", "sleep", "done"} => openBodies = 0

\* ======================================================================
\* Properties of IndexOptionPrice.UnmarshalJSON, checked under
\* UnmarshalSpec
\* ======================================================================

\* C33 - decoding a record never crashes: UnmarshalJSON returns nil with
\* every field assigned, or returns an error, whatever the record; a record
\* without Date does not make it dereference a nil pointer.
C33_DecodeNeverCrashes ==
  dec.pc = "done" =>
     \/ /\ dec.ret = NoConvErr
        /\ dec.iop.Date # "unset"
        /\ dec.iop.PutCallDivision # "unset"
        /\ Len(dec.iop.fields) = Len(Conversions)
     \/ dec.ret \notin {NoConvErr, NotReturned, Panic}

\* The first of the first n converted fields that is of a kind no handler
\* knows; 0 when there is none.
FirstBad(n) ==
  LET bad == {i \in 1..n : dec.raw.kinds[i] \in BadKinds} IN
  IF bad = {} THEN 0 ELSE CHOOSE i \in bad : \A j \in bad : i <= j

\* The error of the conversion of field i when it is of kind `kind`.
ConvErrOf(i, kind) ==
  [fn |-> CASE Conversions[i].conv = "price"  -> "unmarshalPrice"
            [] Conversions[i].conv = "volume" -> "unmarshalVolume"
            [] OTHER                          -> "unmarshalJSONNumber",
   type |-> kind]

\* C34 - the error accumulator is sticky and the first error wins: while no
\* conversion has failed u.err is nil and every field was converted; from
\* the first failure on u.err is that failure's error, no later call
\* converts anything and each returns nil; UnmarshalJSON returns u.err: the
\* first conversion error, or nil when there was none.
C34_StickyFirstError ==
  dec.pc = "convert" \/ (dec.pc = "done" /\ dec.iop.Date # "unset") =>
     LET n == Len(dec.iop.fields)
         b == FirstBad(n)
     IN
     /\ b = 0 =>
          /\ dec.u.err = NoConvErr
          /\ dec.converted = n
     /\ b # 0 =>
          /\ dec.u.err = ConvErrOf(b, dec.raw.kinds[b])
          /\ dec.converted = b
          /\ \A i \in b..n : dec.iop.fields[i] = NilPtr
     /\ \A i \in 1..(IF b = 0 THEN n ELSE b - 1) :
           dec.iop.fields[i] =
              IF dec.raw.kinds[i] = "float64" THEN Ptr ELSE NilPtr
     /\ dec.pc = "done" =>
          /\ n = Len(Conversions)
          /\ dec.ret = dec.u.err

C34_Witness ==
  /\ dec.pc = "done"
  /\ dec.raw.kinds[3] = "bool"
  /\ dec.raw.kinds[4] = "float64"
  /\ dec.raw.kinds[15] = "map[string]interface {}"
  /\ dec.ret = [fn |-> "unmarshalPrice", type |-> "bool"]
  /\ dec.converted = 3
  /\ dec.iop.fields[2] = Ptr
  /\ dec.iop.fields[4] = NilPtr
  /\ Len(dec.iop.fields) = 19

====
